---- MODULE Spec2Model ----
(***************************************************************************)
(* A model of the forester decision-tree ensemble library.                 *)
(*                                                                         *)
(* A sample is a record [x |-> <<feature columns>>, y |-> target].  A data *)
(* set is a sequence of samples that training reorders in place.  Feature  *)
(* values are integers; the f64 feature type adds the value NaN, which is  *)
(* incomparable with everything (every comparison with it is false).       *)
(* Column indices (theta) are 0-based as in the source; sequences here are *)
(* 1-based, so column theta of sample s is s.x[theta + 1].                 *)
(***************************************************************************)
EXTENDS Integers, Sequences, FiniteSets, Bags, TLC

VARIABLES
    data,      \* the caller's sample sequence (&mut [Sample])
    data0,     \* the sample sequence as it was handed to the call (history)
    pc,        \* position of the caller
    conf,      \* builder configuration
    rng,       \* the random generator owned by the splitter
    arena,     \* node arena of the tree under construction
    stack,     \* pending recursive calls of the tree builder
    forest,    \* trees built so far, in construction order
    view,      \* result of the last partition_data call
    panicked,  \* TRUE once a call has panicked
    probe,     \* the sample handed to predict
    pred       \* the prediction returned (or accumulated) for probe

vars == <<data, data0, pc, conf, rng, arena, stack, forest, view, panicked, probe, pred>>

(***************************************************************************)
(* Bounds of the model.                                                    *)
(***************************************************************************)
PartLen == 3        \* longest sequence handed to partition_data / sort_data
MaxSamples == 3     \* largest data set handed to TreeBuilder.fit
SplitSamples == 4   \* largest data set handed to a depth-limited TreeBuilder.fit
ForestSamples == 2  \* largest data set handed to ForestBuilder.fit
MaxTrees == 2       \* largest n_trees of a forest
MaxCount == 2       \* largest count in a bin of a generated counter
CounterLen == 3     \* longest subset handed to train_leaf_predictor alone

FeatureValues == {0, 1, 2}        \* feature values of generated samples
Targets == {0, 1}                 \* targets of generated samples
TrialCounts == {1, 2}             \* k of BestRandomSplit(k)
MinSamplesSplits == {1, 3}        \* min_samples_split
MaxDepths == {<<>>, <<0>>, <<1>>} \* max_depth: None, Some(0), Some(1)

(***************************************************************************)
(* Feature values and their partial order.                                 *)
(***************************************************************************)
NaN == -1

NFeatures == 2

Le(a, b) == a # NaN /\ b # NaN /\ a <= b
Lt(a, b) == a # NaN /\ b # NaN /\ a < b
Gt(a, b) == Lt(b, a)

\* Option<Ordering> of PartialOrd::partial_cmp
partial_cmp(a, b) ==
    IF a = NaN \/ b = NaN THEN "None"
    ELSE IF a < b THEN "Less" ELSE IF a = b THEN "Equal" ELSE "Greater"

Range(s) == {s[i] : i \in DOMAIN s}

SeqBag(s) == [v \in Range(s) |-> Cardinality({i \in DOMAIN s : s[i] = v})]

Swap(s, i, j) == [s EXCEPT ![i] = s[j], ![j] = s[i]]

SeqsUpTo(S, n) == UNION {[1..m -> S] : m \in 0..n}

sample_as_split_feature(sample, theta) == sample.x[theta + 1]

(***************************************************************************)
(* array_ops::Partition: Hoare-style in-place partition by a predicate.    *)
(* i scans up over elements that satisfy the predicate, j scans down over  *)
(* elements that do not; a misplaced pair is swapped.  Returns the         *)
(* reordered sequence and the number of elements satisfying the predicate. *)
(***************************************************************************)
\* the closure handed to partition by partition_data
\* a partition predicate with the comparison the wrong way round
GoesLeft_Reversed(sample, split) ==
    Le(split.threshold, sample_as_split_feature(sample, split.theta))

\* a partition predicate with a strict comparison
GoesLeft_Strict(sample, split) ==
    Lt(sample_as_split_feature(sample, split.theta), split.threshold)

GoesLeft(sample, split) ==
    Le(sample_as_split_feature(sample, split.theta), split.threshold)

RECURSIVE PartitionLoop(_, _, _, _)
PartitionLoop(s, i, j, split) ==
    IF i > j THEN [seq |-> s, i |-> i - 1]
    ELSE IF GoesLeft(s[i], split) THEN PartitionLoop(s, i + 1, j, split)
    ELSE IF ~GoesLeft(s[j], split) THEN PartitionLoop(s, i, j - 1, split)
    ELSE PartitionLoop(Swap(s, i, j), i + 1, j - 1, split)

Partition(s, split) == PartitionLoop(s, 1, Len(s), split)

(***************************************************************************)
(* DataSet for [Sample]                                                    *)
(***************************************************************************)
\* partition in place, then split_at_mut(i): left = [0, i), right = [i, n)
\* a partition that overwrites the right part instead of swapping into it
partition_data_Overwrite(s, split) ==
    LET r == Partition(s, split)
        d == [k \in DOMAIN s |-> IF k <= r.i THEN r.seq[k] ELSE r.seq[1]]
    IN  [data |-> d, i |-> r.i, left |-> SubSeq(d, 1, r.i),
         right |-> SubSeq(d, r.i + 1, Len(s))]

partition_data(s, split) ==
    LET r == Partition(s, split)
    IN  [data  |-> r.seq,
         i     |-> r.i,
         left  |-> SubSeq(r.seq, 1, r.i),
         right |-> SubSeq(r.seq, r.i + 1, Len(s))]

Perms(s) ==
    {[i \in DOMAIN s |-> s[p[i]]] :
        p \in {q \in [DOMAIN s -> DOMAIN s] : \A a, b \in DOMAIN s : a # b => q[a] # q[b]}}

\* sort_unstable_by with a comparator that panics on an incomparable pair.
\* The set of outcomes: equal features may end in any order; after a panic
\* the slice holds the same elements in an unspecified order.
sort_data(s, theta) ==
    LET f(k) == sample_as_split_feature(s[k], theta)
        incomparable == \E a, b \in DOMAIN s : a # b /\ partial_cmp(f(a), f(b)) = "None"
    IN  IF Len(s) < 2 THEN {[data |-> s, panic |-> FALSE]}
        ELSE IF incomparable THEN {[data |-> p, panic |-> TRUE] : p \in Perms(s)}
        ELSE {[data |-> p, panic |-> FALSE] :
                p \in {q \in Perms(s) :
                    \A k \in 1..(Len(q) - 1) :
                        Le(sample_as_split_feature(q[k], theta),
                           sample_as_split_feature(q[k + 1], theta))}}

visit_samples(s) == s

(***************************************************************************)
(* Scores are f64 in the source; here they are exact fractions             *)
(* [num, den] with den > 0, compared by cross-multiplication.              *)
(***************************************************************************)
Frac(n, d) == [num |-> n, den |-> d]
LtFrac(a, b) == a.num * b.den < b.num * a.den
EqFrac(a, b) == a.num * b.den = b.num * a.den
LeFrac(a, b) == a.num * b.den <= b.num * a.den

RECURSIVE Gcd(_, _)
Gcd(a, b) == IF b = 0 THEN a ELSE Gcd(b, a % b)

\* fractions that are stored are kept in lowest terms, so that equal values
\* are equal records
Norm(f) == LET g == Gcd(f.num, f.den) IN Frac(f.num \div g, f.den \div g)
AddFrac(a, b) == Norm(Frac(a.num * b.den + b.num * a.den, a.den * b.den))

(***************************************************************************)
(* categorical::CatCount: a dense counter over the classes.                *)
(***************************************************************************)
NumClasses == 3
Classes == 0..(NumClasses - 1)

EmptyCounter == [c \in Classes |-> 0]
add_one(w, c) == [w EXCEPT ![c] = @ + 1]
merge(a, b) == [c \in Classes |-> a[c] + b[c]]

RECURSIVE SumOver(_, _)
SumOver(S, f) ==
    IF S = {} THEN 0
    ELSE LET c == CHOOSE c \in S : TRUE IN f[c] + SumOver(S \ {c}, f)

total(w) == SumOver(Classes, w)

\* count(c) / total, and 0 when the counter is empty
probability(w, c) == IF total(w) = 0 THEN Frac(0, 1) ELSE Frac(w[c], total(w))

(***************************************************************************)
(* SampleDescription and TrainingData for [Sample] (classification)        *)
(***************************************************************************)
\* a sample count that is off by one
n_samples_OffByOne(s) == Len(s) + 1

n_samples(s) == Len(s)

\* thread_rng().gen_range(0, 2): any column of the sample
gen_split_feature(s) == 0..(Len(s[1].x) - 1)

\* self.iter().map(|sample| sample.y).sum()
\* a sum of the class counts that leaves out the first sample
RECURSIVE train_leaf_predictor_SkipFirst(_)
train_leaf_predictor_SkipFirst(s) ==
    IF Len(s) <= 1 THEN EmptyCounter
    ELSE add_one(train_leaf_predictor_SkipFirst(SubSeq(s, 1, Len(s) - 1)), s[Len(s)].y)

RECURSIVE train_leaf_predictor(_)
train_leaf_predictor(s) ==
    IF s = <<>> THEN EmptyCounter
    ELSE add_one(train_leaf_predictor(SubSeq(s, 1, Len(s) - 1)), s[Len(s)].y)

\* w.clone()
\* a prediction that ignores the leaf's parameter
sample_predict_Constant(sample, w) == [k \in DOMAIN w |-> 1]

sample_predict(sample, w) == w

\* gini = sum over the classes of p * (1 - p)
\* a Gini impurity computed from the class counts instead of the class
\* probabilities
split_criterion_Counts(s) ==
    LET counts == train_leaf_predictor(s)
        n == total(counts)
        terms == [c \in Classes |-> counts[c] * (n - counts[c])]
    IN  Frac(SumOver(Classes, terms), 1)

split_criterion(s) ==
    LET counts == train_leaf_predictor(s)
        n == total(counts)
        terms == [c \in Classes |-> counts[c] * (n - counts[c])]
    IN  IF n = 0 THEN Frac(0, 1) ELSE Frac(SumOver(Classes, terms), n * n)

(***************************************************************************)
(* The regression sample of api.rs: predictors::ConstMean as leaf and      *)
(* criteria::VarCriterion as impurity.                                     *)
(***************************************************************************)
RECURSIVE SumTargets(_)
SumTargets(s) == IF s = <<>> THEN 0 ELSE Head(s).y + SumTargets(Tail(s))

RECURSIVE SumSquares(_)
SumSquares(s) == IF s = <<>> THEN 0 ELSE Head(s).y * Head(s).y + SumSquares(Tail(s))

\* mean of the targets
const_mean(s) == IF s = <<>> THEN Frac(0, 1) ELSE Norm(Frac(SumTargets(s), Len(s)))

\* population variance of the targets: sum((y - mean)^2) / N
var_criterion(s) ==
    IF s = <<>> THEN Frac(0, 1)
    ELSE Frac(Len(s) * SumSquares(s) - SumTargets(s) * SumTargets(s), Len(s) * Len(s))

\* the prediction type's zero
zero(kind) == IF kind = "regressor" THEN Frac(0, 1) ELSE EmptyCounter

\* the leaf predictor and the impurity that the sample type selects
fit_leaf(s, kind) == IF kind = "regressor" THEN const_mean(s) ELSE train_leaf_predictor(s)
impurity(s, kind) == IF kind = "regressor" THEN var_criterion(s) ELSE split_criterion(s)

U8Max == 255

\* fold((255, 0), |(min, max), x| (if x < min {x} else {min}, if x > max {x} else {max}))
RECURSIVE FoldBounds(_, _, _)
FoldBounds(s, theta, acc) ==
    IF s = <<>> THEN acc
    ELSE LET x == sample_as_split_feature(Head(s), theta)
         IN  FoldBounds(Tail(s), theta,
                        [lo |-> IF Lt(x, acc.lo) THEN x ELSE acc.lo,
                         hi |-> IF Gt(x, acc.hi) THEN x ELSE acc.hi])

\* bounds whose upper end is one past the maximum
feature_bounds_Wide(s, theta) ==
    LET b == FoldBounds(s, theta, [lo |-> U8Max, hi |-> 0])
    IN  [lo |-> b.lo, hi |-> b.hi + 1]

feature_bounds(s, theta) == FoldBounds(s, theta, [lo |-> U8Max, hi |-> 0])

(***************************************************************************)
(* split::BestRandomSplit                                                  *)
(***************************************************************************)
\* weighted average of the two children's impurities: (N_L*s_L + N_R*s_R) / N
postsplit(left, right, kind) ==
    LET sl == impurity(left, kind)
        sr == impurity(right, kind)
    IN  Frac(Len(left) * sl.num * sr.den + Len(right) * sr.num * sl.den,
             (Len(left) + Len(right)) * sl.den * sr.den)

\* A draw of a threshold v with lo <= v < hi (lo < hi) from the generator:
\* the set of [v, generator afterwards] the draw can produce.  The thread
\* generator can produce any value of the range; a seeded generator
\* produces the one its state determines.
Draw(g, lo, hi) ==
    IF g.kind = "seeded"
    THEN {[v |-> lo + (g.s % (hi - lo)), rng |-> [g EXCEPT !.s = (5 * g.s + 3) % 8]]}
    ELSE {[v |-> t, rng |-> g] : t \in lo..(hi - 1)}

NoSplit == [theta |-> 0, threshold |-> 0]

\* The outcomes of the j remaining trials on subset sub: each trial draws
\* theta, skips a constant feature, draws a threshold, partitions the subset
\* to score the split, and keeps it if it scores strictly below the best so
\* far (the pre-split score at the start).
RECURSIVE Trials(_, _, _, _, _, _)
Trials(sub, j, best, kind, g, log) ==
    IF j = 0 THEN {[data |-> sub, best |-> best, rng |-> g, trials |-> log]}
    ELSE UNION {
        LET b == feature_bounds(sub, theta)
        IN  IF b.lo = b.hi THEN Trials(sub, j - 1, best, kind, g, log)
            ELSE UNION {
                LET split == [theta |-> theta, threshold |-> dr.v]
                    parts == partition_data(sub, split)
                    score == postsplit(parts.left, parts.right, kind)
                    cand  == [found |-> TRUE, split |-> split, score |-> score]
                IN  Trials(parts.data, j - 1,
                           IF LtFrac(score, best.score) THEN cand ELSE best,
                           kind, dr.rng, Append(log, [split |-> split, score |-> score]))
                : dr \in Draw(g, b.lo, b.hi)}
        : theta \in gen_split_feature(sub)}

\* BestRandomSplit(k).propose(subset)
propose(sub, k, kind, g) ==
    Trials(sub, k, [found |-> FALSE, split |-> NoSplit, score |-> impurity(sub, kind)],
           kind, g, <<>>)

(***************************************************************************)
(* dtree::DeterministicTreeBuilder and DeterministicTree.                  *)
(*                                                                         *)
(* A node is a leaf holding the leaf parameter w, or a split holding       *)
(* (theta, threshold) and the arena indices of its children (0-based, -1   *)
(* while a child is not yet built).  The fields lo, hi, d, pre, post,      *)
(* trials and why record how the node was built (the range of the data it  *)
(* was built from, its depth, its scores, the trials of the splitter);     *)
(* they are dropped when the finished tree is stored.                      *)
(***************************************************************************)
Splice(s, lo, sub) ==
    [k \in DOMAIN s |-> IF k >= lo /\ k < lo + Len(sub) THEN sub[k - lo + 1] ELSE s[k]]

LeafNode(f, sub, pre, log, why, kind) ==
    [kind |-> "leaf", split |-> NoSplit, left |-> -1, right |-> -1,
     w |-> fit_leaf(sub, kind),
     lo |-> f.lo, hi |-> f.hi, d |-> f.d, pre |-> pre, post |-> pre,
     trials |-> log, why |-> why]

SplitNode(f, split, pre, post, log, kind) ==
    [kind |-> "split", split |-> split, left |-> -1, right |-> -1,
     w |-> zero(kind),
     lo |-> f.lo, hi |-> f.hi, d |-> f.d, pre |-> pre, post |-> post,
     trials |-> log, why |-> "split"]

\* a child index recorded on the wrong side of its parent
LinkChild_Swapped(a, f, idx) ==
    IF f.side = "left" THEN [a EXCEPT ![f.parent + 1].right = idx]
    ELSE IF f.side = "right" THEN [a EXCEPT ![f.parent + 1].left = idx]
    ELSE a

\* record the index of a new node in its parent
LinkChild(a, f, idx) ==
    IF f.side = "left" THEN [a EXCEPT ![f.parent + 1].left = idx]
    ELSE IF f.side = "right" THEN [a EXCEPT ![f.parent + 1].right = idx]
    ELSE a

\* the stopping rules checked before the splitter is asked
must_stop(sub, d, c) ==
    \/ n_samples(sub) < c.min_samples_split
    \/ (c.max_depth # <<>> /\ d >= c.max_depth[1])
    \/ impurity(sub, c.kind).num = 0

\* One call of the recursive grow on the subset data[lo..hi] at depth d: the
\* set of its outcomes [sub (the subset as it leaves it), node, frames (the
\* recursive calls it makes, left first), rng].
grow(f, sub, c, g, idx) ==
    LET pre == impurity(sub, c.kind)
    IN  IF must_stop(sub, f.d, c)
        THEN {[sub |-> sub, node |-> LeafNode(f, sub, pre, <<>>, "stop", c.kind),
               frames |-> <<>>, rng |-> g]}
        ELSE {  IF ~o.best.found
                THEN [sub |-> o.data, node |-> LeafNode(f, o.data, pre, o.trials, "no split", c.kind),
                      frames |-> <<>>, rng |-> o.rng]
                ELSE LET parts == partition_data(o.data, o.best.split)
                     IN  IF Len(parts.left) = 0 \/ Len(parts.right) = 0
                         THEN [sub |-> parts.data,
                               node |-> LeafNode(f, parts.data, pre, o.trials, "empty side", c.kind),
                               frames |-> <<>>, rng |-> o.rng]
                         ELSE [sub |-> parts.data,
                               node |-> SplitNode(f, o.best.split, pre, o.best.score, o.trials, c.kind),
                               frames |-> <<[lo |-> f.lo, hi |-> f.lo + parts.i - 1,
                                             d |-> f.d + 1, parent |-> idx, side |-> "left"],
                                            [lo |-> f.lo + parts.i, hi |-> f.hi,
                                             d |-> f.d + 1, parent |-> idx, side |-> "right"]>>,
                               rng |-> o.rng]
                : o \in propose(sub, c.n_splits, c.kind, g)}

StoredNode(nd) ==
    [kind |-> nd.kind, split |-> nd.split, left |-> nd.left, right |-> nd.right, w |-> nd.w]

StoredTree(a) == [k \in DOMAIN a |-> StoredNode(a[k])]

\* DeterministicTree::predict: descend from node idx, left if feature <= threshold
RECURSIVE descend(_, _, _)
descend(tree, idx, sample) ==
    LET nd == tree[idx + 1]
    IN  IF nd.kind = "leaf" THEN idx
        ELSE IF Le(sample_as_split_feature(sample, nd.split.theta), nd.split.threshold)
             THEN descend(tree, nd.left, sample)
             ELSE descend(tree, nd.right, sample)

tree_predict(tree, sample) == sample_predict(sample, tree[descend(tree, 0, sample) + 1].w)

(***************************************************************************)
(* dforest::DeterministicForestBuilder and DeterministicForest             *)
(***************************************************************************)
\* The aggregation of the trees' predictions: counters are summed,
\* regression values are summed and divided by the number of trees.
combine(a, b, kind) == IF kind = "regressor" THEN AddFrac(a, b) ELSE merge(a, b)
finalize(a, n, kind) == IF kind = "regressor" THEN Norm(Frac(a.num, a.den * n)) ELSE a

RECURSIVE sum_predictions(_, _, _)
sum_predictions(trees, sample, kind) ==
    IF trees = <<>> THEN zero(kind)
    ELSE combine(sum_predictions(SubSeq(trees, 1, Len(trees) - 1), sample, kind),
                 tree_predict(trees[Len(trees)], sample), kind)

forest_predict(trees, sample, kind) ==
    finalize(sum_predictions(trees, sample, kind), Len(trees), kind)

(***************************************************************************)
(* Values every specification leaves alone until it uses them.             *)
(***************************************************************************)
NoView == [split |-> [theta |-> 0, threshold |-> 0], i |-> 0]
NoConf == [kind |-> "none"]
NoRng == [kind |-> "none", s |-> 0]
NoProbe == [x |-> <<>>, y |-> 0]

(***************************************************************************)
(* SpecPartition: a caller hands an arbitrary sample sequence to           *)
(* partition_data or to sort_data.                                         *)
(***************************************************************************)
FloatFeatures == FeatureValues \cup {NaN}
FloatSamples == [x : [1..NFeatures -> FloatFeatures], y : {0}]
Splits == [theta : 0..(NFeatures - 1), threshold : FeatureValues]

InitPartition ==
    /\ data \in SeqsUpTo(FloatSamples, PartLen)
    /\ data0 = data
    /\ view \in [split : Splits, i : {0}]
    /\ pc = "start"
    /\ panicked = FALSE
    /\ conf = NoConf
    /\ rng = NoRng
    /\ arena = <<>>
    /\ stack = <<>>
    /\ forest = <<>>
    /\ probe = NoProbe
    /\ pred = <<>>

CallPartitionData ==
    /\ pc = "start"
    /\ LET r == partition_data(data, view.split)
       IN  /\ data' = r.data
           /\ view' = [view EXCEPT !.i = r.i]
    /\ pc' = "partitioned"
    /\ UNCHANGED <<data0, conf, rng, arena, stack, forest, panicked, probe, pred>>

CallSortData ==
    /\ pc = "start"
    /\ \E r \in sort_data(data, view.split.theta) :
        /\ data' = r.data
        /\ panicked' = r.panic
    /\ pc' = "sorted"
    /\ UNCHANGED <<data0, conf, rng, arena, stack, forest, view, probe, pred>>

NextPartition == CallPartitionData \/ CallSortData

SpecPartition == InitPartition /\ [][NextPartition]_vars

(***************************************************************************)
(* Spec: a caller builds a forest on a data set and asks it for            *)
(* predictions.                                                            *)
(***************************************************************************)
Samples == [x : [1..NFeatures -> FeatureValues], y : Targets]
Probes == [x : [1..NFeatures -> FeatureValues], y : {0}]
ThreadRng == [kind |-> "thread", s |-> 0]

\* One ordering of every multiset of at most n samples (ordered by target,
\* then by the feature columns from the last to the first).
SortKey(sample) ==
    LET b == 1 + CHOOSE m \in FeatureValues : \A v \in FeatureValues : v <= m
        RECURSIVE key(_)
        key(k) == IF k = 0 THEN sample.y ELSE key(k - 1) * b + sample.x[NFeatures + 1 - k]
    IN  key(NFeatures)

RECURSIVE SortedOfLen(_, _)
SortedOfLen(S, m) ==
    IF m = 1 THEN {<<x>> : x \in S}
    ELSE UNION {{Append(s, x) : x \in {z \in S : SortKey(s[m - 1]) <= SortKey(z)}} :
                    s \in SortedOfLen(S, m - 1)}

DatasetsOf(S, n) == UNION {SortedOfLen(S, m) : m \in 1..n}
Datasets(n) == DatasetsOf(Samples, n)

\* samples of the larger runs: the second feature column takes two values
NarrowSamples == {z \in Samples : z.x[NFeatures] \in {0, 1}}

\* a tree builder alone is a forest builder of one tree
TreeConfs == [kind : {"classifier"}, n_trees : {1}, n_splits : TrialCounts,
              min_samples_split : MinSamplesSplits, max_depth : MaxDepths,
              rng : {ThreadRng}]

\* the forest of api.rs: one trial per node, min_samples_split = 1, no depth limit
ForestConfs == [kind : {"classifier", "regressor"}, n_trees : 1..MaxTrees, n_splits : {1},
                min_samples_split : {1}, max_depth : {<<>>}, rng : {ThreadRng}]

RootFrame == [lo |-> 1, hi |-> Len(data), d |-> 0, parent |-> -1, side |-> "root"]

InitWith(D, C) ==
    /\ data \in D
    /\ data0 = data
    /\ conf \in C
    /\ rng = conf.rng
    /\ pc = "idle"
    /\ arena = <<>>
    /\ stack = <<>>
    /\ forest = <<>>
    /\ view = NoView
    /\ panicked = FALSE
    /\ probe = NoProbe
    /\ pred = <<>>

Init == InitWith(Datasets(MaxSamples), TreeConfs)

InitForest == InitWith(DatasetsOf(NarrowSamples, ForestSamples), ForestConfs)

\* a tree builder limited to depth 1 (a root split and its two leaves), on
\* larger data sets
SplitConfs == [kind : {"classifier"}, n_trees : {1}, n_splits : TrialCounts,
               min_samples_split : {1}, max_depth : {<<1>>}, rng : {ThreadRng}]

InitSplit == InitWith(DatasetsOf(NarrowSamples, SplitSamples), SplitConfs)

\* ForestBuilder.fit is called: the first tree's builder starts at the root
Fit ==
    /\ pc = "idle"
    /\ pc' = "fitting"
    /\ stack' = <<RootFrame>>
    /\ UNCHANGED <<data, data0, conf, rng, arena, forest, view, panicked, probe, pred>>

\* one call of the tree builder's recursive grow
GrowNode ==
    /\ pc = "fitting"
    /\ stack # <<>>
    /\ LET f == Head(stack)
       IN  \E o \in grow(f, SubSeq(data, f.lo, f.hi), conf, rng, Len(arena)) :
            /\ data' = Splice(data, f.lo, o.sub)
            /\ arena' = Append(LinkChild(arena, f, Len(arena)), o.node)
            /\ stack' = o.frames \o Tail(stack)
            /\ rng' = o.rng
    /\ UNCHANGED <<data0, pc, conf, forest, view, panicked, probe, pred>>

\* the tree is complete: it joins the forest, and the next tree is started on
\* the same (reordered) data, or fit returns
FinishTree ==
    /\ pc = "fitting"
    /\ stack = <<>>
    /\ forest' = Append(forest, StoredTree(arena))
    /\ arena' = <<>>
    /\ IF Len(forest) + 1 < conf.n_trees
       THEN /\ stack' = <<RootFrame>>
            /\ pc' = pc
       ELSE /\ stack' = stack
            /\ pc' = "fitted"
    /\ UNCHANGED <<data, data0, conf, rng, view, panicked, probe, pred>>

\* Forest.predict(sample)
Predict ==
    /\ pc = "fitted"
    /\ \E s \in Probes :
        /\ probe' = s
        /\ pred' = forest_predict(forest, s, conf.kind)
    /\ pc' = "predicted"
    /\ UNCHANGED <<data, data0, conf, rng, arena, stack, forest, view, panicked>>

\* Forest.predict is called again with the same sample
PredictAgain ==
    /\ pc = "predicted"
    /\ pred' = forest_predict(forest, probe, conf.kind)
    /\ UNCHANGED <<data, data0, pc, conf, rng, arena, stack, forest, view, panicked, probe>>

\* TreeBuilder.fit
Next == Fit \/ GrowNode \/ FinishTree

Spec == Init /\ [][Next]_vars

SpecSplit == InitSplit /\ [][Next]_vars

\* ForestBuilder.fit, then Forest.predict
NextForest == Next \/ Predict \/ PredictAgain

SpecForest == InitForest /\ [][NextForest]_vars

(***************************************************************************)
(* The api tests: ExtraTreesRegressor::new().fit(data) and the classifier  *)
(* Builder, on the two-cluster data of the tests, then model.predict(x).   *)
(* The probe x is chosen up front and each finished tree is folded into    *)
(* the running aggregate of the trees' predictions for x, which is what    *)
(* predict computes from the stored trees.                                 *)
(***************************************************************************)
n_estimators == 10

ApiX == <<1, 2, 3, 7, 8, 9>>
ApiY(kind) == IF kind = "regressor" THEN <<5, 5, 5, 2, 2, 2>> ELSE <<1, 1, 1, 2, 2, 2>>
ApiData(kind) == [i \in DOMAIN ApiX |-> [x |-> <<ApiX[i]>>, y |-> ApiY(kind)[i]]]
ApiProbes == {[x |-> <<v>>, y |-> 0] : v \in {-1000, 5, 1000}}

ApiConfs == [kind : {"classifier", "regressor"}, n_trees : {n_estimators}, n_splits : {1},
             min_samples_split : {1}, max_depth : {<<>>}, rng : {ThreadRng}]

InitApi ==
    /\ conf \in ApiConfs
    /\ data = ApiData(conf.kind)
    /\ data0 = data
    /\ probe \in ApiProbes
    /\ pred = [acc |-> zero(conf.kind), n |-> 0]
    /\ rng = conf.rng
    /\ pc = "idle"
    /\ arena = <<>>
    /\ stack = <<>>
    /\ forest = <<>>
    /\ view = NoView
    /\ panicked = FALSE

\* a tree is complete: its prediction for x joins the aggregate, and the next
\* tree is started on the same (reordered) data, or fit returns
FinishTreeApi ==
    /\ pc = "fitting"
    /\ stack = <<>>
    /\ pred' = [acc |-> combine(pred.acc, tree_predict(StoredTree(arena), probe), conf.kind),
                n |-> pred.n + 1]
    /\ arena' = <<>>
    /\ IF pred.n + 1 < conf.n_trees
       THEN /\ stack' = <<RootFrame>>
            /\ pc' = pc
       ELSE /\ stack' = stack
            /\ pc' = "fitted"
    /\ UNCHANGED <<data, data0, conf, rng, forest, view, panicked, probe>>

\* model.predict(x)
PredictApi ==
    /\ pc = "fitted"
    /\ pred' = finalize(pred.acc, pred.n, conf.kind)
    /\ pc' = "predicted"
    /\ UNCHANGED <<data, data0, conf, rng, arena, stack, forest, view, panicked, probe>>

NextApi == Fit \/ GrowNode \/ FinishTreeApi \/ PredictApi

SpecApi == InitApi /\ [][NextApi]_vars

(***************************************************************************)
(* Two fits of the same data set with equally seeded generators handed to  *)
(* the splitter: after the first fit the harness restores the sample order *)
(* and the generator's seed and fits again.                                *)
(***************************************************************************)
Seeds == {0, 1, 2}

DetConfs == [kind : {"classifier"}, n_trees : {1}, n_splits : TrialCounts,
             min_samples_split : {1}, max_depth : {<<>>},
             rng : {[kind |-> "seeded", s |-> k] : k \in Seeds}]

InitDet == InitWith(DatasetsOf(NarrowSamples, MaxSamples), DetConfs)

Refit ==
    /\ pc = "fitted"
    /\ Len(forest) = 1
    /\ data' = data0
    /\ rng' = conf.rng
    /\ stack' = <<[RootFrame EXCEPT !.hi = Len(data0)]>>
    /\ pc' = "fitting"
    /\ UNCHANGED <<data0, conf, arena, forest, view, panicked, probe, pred>>

NextDet == Fit \/ GrowNode \/ FinishTree \/ Refit

SpecDet == InitDet /\ [][NextDet]_vars

(***************************************************************************)
(* The categorical counter on its own: three counters are merged in the    *)
(* ways the monoid laws compare, a class is added to a counter, and        *)
(* train_leaf_predictor sums the class counts of a subset and of a         *)
(* rearrangement of it.                                                    *)
(***************************************************************************)
Counters == [Classes -> 0..MaxCount]

ClassSamples == {[x |-> [k \in 1..NFeatures |-> 0], y |-> c] : c \in Classes}

InitCounter ==
    /\ \/ /\ view \in [a : Counters, b : Counters, c : Counters]
          /\ data = <<>>
       \/ /\ view = [a |-> EmptyCounter, b |-> EmptyCounter, c |-> EmptyCounter]
          /\ data \in SeqsUpTo(ClassSamples, CounterLen) \ {<<>>}
    /\ data0 = data
    /\ pc = "start"
    /\ pred = <<>>
    /\ panicked = FALSE
    /\ conf = NoConf
    /\ rng = NoRng
    /\ arena = <<>>
    /\ stack = <<>>
    /\ forest = <<>>
    /\ probe = NoProbe

\* a + b, b + a, (a + b) + c, a + (b + c), a + empty, empty + a
CallMerge ==
    /\ pc = "start"
    /\ data = <<>>
    /\ pred' = [ab |-> merge(view.a, view.b),
                ba |-> merge(view.b, view.a),
                ab_c |-> merge(merge(view.a, view.b), view.c),
                a_bc |-> merge(view.a, merge(view.b, view.c)),
                a_e |-> merge(view.a, EmptyCounter),
                e_a |-> merge(EmptyCounter, view.a)]
    /\ pc' = "merged"
    /\ UNCHANGED <<data, data0, conf, rng, arena, stack, forest, view, panicked, probe>>

\* a.add_one(c)
CallAddOne ==
    /\ pc = "start"
    /\ data = <<>>
    /\ \E c \in Classes :
        /\ probe' = [x |-> <<>>, y |-> c]
        /\ pred' = add_one(view.a, c)
    /\ pc' = "added"
    /\ UNCHANGED <<data, data0, conf, rng, arena, stack, forest, view, panicked>>

\* train_leaf_predictor on the subset, and on the same samples in another
\* order
CallTrainLeafPredictor ==
    /\ pc = "start"
    /\ data # <<>>
    /\ \E p \in Perms(data) :
        /\ data' = p
        /\ pred' = [w |-> train_leaf_predictor(data), wp |-> train_leaf_predictor(p)]
    /\ pc' = "trained"
    /\ UNCHANGED <<data0, conf, rng, arena, stack, forest, view, panicked, probe>>

NextCounter == CallMerge \/ CallAddOne \/ CallTrainLeafPredictor

SpecCounter == InitCounter /\ [][NextCounter]_vars

(***************************************************************************)
(* Properties of partition_data and sort_data (SpecPartition).             *)
(***************************************************************************)
SplitFeature(sample) == sample_as_split_feature(sample, view.split.theta)

HasNaN(s) == \E k \in DOMAIN s : SplitFeature(s[k]) = NaN

\* left = [0, i), right = [i, n) of the same sequence, whose multiset of
\* samples is the one handed in
PartitionFrame ==
    /\ view.i \in 0..Len(data)
    /\ Len(data) = Len(data0)
    /\ SeqBag(data) = SeqBag(data0)

\* C1: after partition_data, left is the prefix [0, i) and right the suffix
\* [i, n) of the reordered sequence, every sample of left has
\* feature(theta) <= threshold, every sample of right has
\* feature(theta) > threshold, and the multiset of samples is unchanged.
C1_PartitionLeftLeRightGt ==
    pc = "partitioned" =>
        /\ PartitionFrame
        /\ \A k \in 1..view.i : Le(SplitFeature(data[k]), view.split.threshold)
        /\ \A k \in (view.i + 1)..Len(data) : Gt(SplitFeature(data[k]), view.split.threshold)

\* What holds of partition_data on every input, NaN included: the right side
\* holds exactly the samples for which `feature <= threshold` is false.
PartitionByPredicate ==
    pc = "partitioned" =>
        /\ PartitionFrame
        /\ \A k \in 1..view.i : Le(SplitFeature(data[k]), view.split.threshold)
        /\ \A k \in (view.i + 1)..Len(data) : ~Le(SplitFeature(data[k]), view.split.threshold)

\* C8: a NaN feature met by a call makes the call fail with an error; it is
\* never silently placed on one side of a split or silently mis-ordered.
C8_NaNFailsLoudly ==
    /\ (pc = "partitioned" /\ HasNaN(data0)) => panicked
    /\ (pc = "sorted" /\ HasNaN(data0) /\ Len(data0) >= 2) => panicked

\* sort_data does fail on NaN, and sorts otherwise
SortDataPanicsOnNaN ==
    pc = "sorted" =>
        /\ SeqBag(data) = SeqBag(data0)
        /\ panicked <=> (HasNaN(data0) /\ Len(data0) >= 2)
        /\ ~panicked =>
            \A k \in 1..(Len(data) - 1) : Le(SplitFeature(data[k]), SplitFeature(data[k + 1]))

(***************************************************************************)
(* Properties of a fitted tree (Spec, SpecSplit).                          *)
(***************************************************************************)
\* the tree builder has returned from its last recursive call
TreeDone == pc = "fitting" /\ stack = <<>> /\ arena # <<>>

NodeSub(k) == SubSeq(data, arena[k].lo, arena[k].hi)
NodeSize(k) == arena[k].hi - arena[k].lo + 1
LeafIdx == {k \in DOMAIN arena : arena[k].kind = "leaf"}
SplitIdx == {k \in DOMAIN arena : arena[k].kind = "split"}

CountOf(s, c) == Cardinality({i \in DOMAIN s : s[i].y = c})

\* C4: after TreeBuilder.fit the leaves' training subsets are non-empty,
\* pairwise disjoint and cover the data set, each leaf holds the class
\* counts of its subset, and every training sample descends by the
\* prediction rule to the leaf whose subset holds it.
C4_LeafCoverage ==
    TreeDone =>
        /\ \A k \in LeafIdx :
            /\ arena[k].lo <= arena[k].hi
            /\ \A c \in Classes : arena[k].w[c] = CountOf(NodeSub(k), c)
        /\ \A p \in DOMAIN data :
            /\ Cardinality({k \in LeafIdx : arena[k].lo <= p /\ p <= arena[k].hi}) = 1
            /\ LET l == descend(arena, 0, data[p]) + 1
               IN  l \in LeafIdx /\ arena[l].lo <= p /\ p <= arena[l].hi

\* a finished tree of at least two splits in which a training sample's
\* feature equals the threshold of the split it went through
C4_Witness ==
    /\ TreeDone
    /\ Cardinality(SplitIdx) >= 2
    /\ \E k \in SplitIdx : \E p \in arena[k].lo..arena[k].hi :
        sample_as_split_feature(data[p], arena[k].split.theta) = arena[k].split.threshold

\* Gini impurity of a subset and the weighted impurity of a split of it,
\* computed from the class counts: 1 - sum of p^2
GiniOf(s) ==
    LET n == Len(s)
        RECURSIVE sq(_)
        sq(c) == IF c < 0 THEN 0 ELSE CountOf(s, c) * CountOf(s, c) + sq(c - 1)
    IN  IF n = 0 THEN Frac(0, 1) ELSE Frac(n * n - sq(NumClasses - 1), n * n)

WeightedGini(l, r) ==
    Frac(Len(l) * GiniOf(l).num * GiniOf(r).den + Len(r) * GiniOf(r).num * GiniOf(l).den,
         (Len(l) + Len(r)) * GiniOf(l).den * GiniOf(r).den)

PostOf(s, split) ==
    LET inL(x) == x.x[split.theta + 1] <= split.threshold
        inR(x) == x.x[split.theta + 1] > split.threshold
    IN  WeightedGini(SelectSeq(s, inL), SelectSeq(s, inR))

TrialSet(k) == {arena[k].trials[j] : j \in DOMAIN arena[k].trials}

\* C5: the splitter returns a split only if its weighted post-split
\* impurity is strictly below the subset's impurity, the split returned is
\* one of the trials and has the least post-split impurity among them, and a
\* leaf is made for want of a split only when no trial was strictly better;
\* every split node's children have weighted impurity strictly below the
\* node's.
C5_BestOfTrials ==
    TreeDone =>
        \A k \in DOMAIN arena :
            /\ Len(arena[k].trials) <= conf.n_splits
            /\ arena[k].kind = "split" =>
                /\ LtFrac(PostOf(NodeSub(k), arena[k].split), GiniOf(NodeSub(k)))
                /\ \E t \in TrialSet(k) : t.split = arena[k].split
                /\ \A t \in TrialSet(k) :
                    LeFrac(PostOf(NodeSub(k), arena[k].split), PostOf(NodeSub(k), t.split))
                /\ LtFrac(WeightedGini(NodeSub(arena[k].left + 1), NodeSub(arena[k].right + 1)),
                          GiniOf(NodeSub(k)))
            /\ (arena[k].kind = "leaf" /\ arena[k].why = "no split") =>
                \A t \in TrialSet(k) : ~LtFrac(PostOf(NodeSub(k), t.split), GiniOf(NodeSub(k)))

\* the root was split on the strictly better of two scored trials
C5_Witness ==
    /\ TreeDone
    /\ arena[1].kind = "split"
    /\ \E t \in TrialSet(1) :
        LtFrac(PostOf(NodeSub(1), arena[1].split), PostOf(NodeSub(1), t.split))

\* a root that became a leaf although a trial was scored: the trial did not
\* improve on the impurity of the subset
C5_NoViableSplit ==
    /\ TreeDone
    /\ arena[1].kind = "leaf"
    /\ arena[1].trials # <<>>

\* depth of a node: the number of its ancestors
RECURSIVE DepthOf(_)
DepthOf(k) ==
    IF k = 1 THEN 0
    ELSE LET p == CHOOSE p \in 1..(k - 1) :
                    arena[p].left = k - 1 \/ arena[p].right = k - 1
         IN  1 + DepthOf(p)

IsLinked(k) ==
    k = 1 \/ \E p \in 1..(k - 1) : arena[p].left = k - 1 \/ arena[p].right = k - 1

Impure(k) == \E p, q \in arena[k].lo..arena[k].hi : data[p].y # data[q].y

\* C6: every split node was built from a subset of at least
\* min_samples_split samples, at a depth below max_depth (when set), whose
\* targets are not all equal; a data set whose targets are all equal yields
\* a tree of exactly one node, a leaf predicting that constant.
C6_StoppingRules ==
    /\ \A k \in SplitIdx :
        /\ NodeSize(k) >= conf.min_samples_split
        /\ conf.max_depth # <<>> => (IsLinked(k) /\ DepthOf(k) < conf.max_depth[1])
        /\ Impure(k)
    /\ (TreeDone /\ \A p, q \in DOMAIN data : data[p].y = data[q].y) =>
        /\ Len(arena) = 1
        /\ arena[1].kind = "leaf"
        /\ arena[1].w = [c \in Classes |-> IF c = data[1].y THEN Len(data) ELSE 0]

\* a finished tree with a split node and an impure leaf that was too small
\* to split
C6_Witness ==
    /\ TreeDone
    /\ SplitIdx # {}
    /\ \E k \in LeafIdx : Impure(k) /\ NodeSize(k) < conf.min_samples_split

(***************************************************************************)
(* Properties of a fitted forest (SpecForest).                             *)
(***************************************************************************)
\* the nodes of a stored tree that lie on a sample's path from the root
RECURSIVE OnPath(_, _, _)
OnPath(tree, k, sample) ==
    \/ k = 1
    \/ \E p \in 1..(k - 1) :
        /\ tree[p].kind = "split"
        /\ OnPath(tree, p, sample)
        /\ \/ tree[p].left = k - 1
              /\ sample.x[tree[p].split.theta + 1] <= tree[p].split.threshold
           \/ tree[p].right = k - 1
              /\ sample.x[tree[p].split.theta + 1] > tree[p].split.threshold

\* the parameter of the one leaf of a tree that a sample reaches
ReachedLeaf(tree, sample) ==
    tree[CHOOSE k \in DOMAIN tree : tree[k].kind = "leaf" /\ OnPath(tree, k, sample)].w

RECURSIVE SumCount(_, _, _)
SumCount(n, sample, c) ==
    IF n = 0 THEN 0
    ELSE ReachedLeaf(forest[n], sample)[c] + SumCount(n - 1, sample, c)

\* numerator of the sum of the first n trees' leaf means over the common
\* denominator DenProd(n)
RECURSIVE DenProd(_, _)
DenProd(n, sample) ==
    IF n = 0 THEN 1 ELSE ReachedLeaf(forest[n], sample).den * DenProd(n - 1, sample)

RECURSIVE SumNum(_, _)
SumNum(n, sample) ==
    IF n = 0 THEN 0
    ELSE ReachedLeaf(forest[n], sample).num * DenProd(n - 1, sample)
         + SumNum(n - 1, sample) * ReachedLeaf(forest[n], sample).den

C9_Fitted ==
    /\ pc \in {"fitted", "predicted"} => Len(forest) = conf.n_trees
    /\ pc = "predicted" =>
        /\ \A t \in DOMAIN forest :
            Cardinality({k \in DOMAIN forest[t] :
                forest[t][k].kind = "leaf" /\ OnPath(forest[t], k, probe)}) = 1
        /\ conf.kind = "classifier" =>
            pred = [c \in Classes |-> SumCount(Len(forest), probe, c)]
        /\ conf.kind = "regressor" =>
            pred.num * DenProd(Len(forest), probe) * Len(forest)
                = SumNum(Len(forest), probe) * pred.den

C9_Step ==
    /\ Len(forest') >= Len(forest)
    /\ SubSeq(forest', 1, Len(forest)) = forest
    /\ pc \in {"fitted", "predicted"} => (forest' = forest /\ data' = data)
    /\ pc = "predicted" => pred' = pred

\* C9: a fitted forest holds exactly n_trees trees; its prediction for a
\* sample is the sum (classification: the counters merged) or the mean
\* (regression) of the parameters of the one leaf the sample reaches in each
\* tree; predicting changes neither the forest nor the data, and calling
\* predict again with the same sample gives the same result.
C9_ForestPredict == []C9_Fitted /\ [][C9_Step]_vars

\* a forest of two trees whose leaves reached by the sample differ has
\* predicted
C9_Witness ==
    /\ pc = "predicted"
    /\ Len(forest) = 2
    /\ ReachedLeaf(forest[1], probe) # ReachedLeaf(forest[2], probe)
    /\ Len(forest[1]) > 1

\* C10: training only reorders the samples: at every step of fit the data
\* set holds the same multiset of samples as before the call, none lost,
\* duplicated or altered.
C10_TrainingOnlyReorders ==
    /\ Len(data) = Len(data0)
    /\ SeqBag(data) = SeqBag(data0)

\* two trees were fitted and the samples are no longer in their original
\* order
C10_Witness ==
    /\ pc = "fitted"
    /\ Len(forest) = 2
    /\ data # data0

(***************************************************************************)
(* Properties of the api tests (SpecApi).                                  *)
(***************************************************************************)
ProbeX == probe.x[1]

\* C2: for every outcome of the draws of the 10 trees, x = -1000 is
\* predicted exactly as the low cluster (regression 5, classification
\* probability(1) = 1), x = 1000 exactly as the high cluster (regression 2,
\* classification probability(2) = 1), and the regression prediction for
\* x = 5 lies in [2, 5].
C2_ApiExtremes ==
    pc = "predicted" =>
        /\ (conf.kind = "regressor" /\ ProbeX = -1000) => EqFrac(pred, Frac(5, 1))
        /\ (conf.kind = "regressor" /\ ProbeX = 1000) => EqFrac(pred, Frac(2, 1))
        /\ (conf.kind = "regressor" /\ ProbeX = 5) =>
            (LeFrac(Frac(2, 1), pred) /\ LeFrac(pred, Frac(5, 1)))
        /\ (conf.kind = "classifier" /\ ProbeX = -1000) =>
            (total(pred) > 0 /\ pred[1] = total(pred))
        /\ (conf.kind = "classifier" /\ ProbeX = 1000) =>
            (total(pred) > 0 /\ pred[2] = total(pred))

\* the regressor predicted a value strictly between the clusters' for x = 5
C2_Witness ==
    /\ pc = "predicted"
    /\ conf.kind = "regressor"
    /\ ProbeX = 5
    /\ LtFrac(Frac(2, 1), pred)
    /\ LtFrac(pred, Frac(5, 1))

\* C3: for every outcome of the draws of the trees, the classifier's
\* prediction for x = 5 has probability(0) = 0 and both probability(1) and
\* probability(2) strictly positive.
C3_InBetweenBothPositive ==
    (pc = "predicted" /\ conf.kind = "classifier" /\ ProbeX = 5) =>
        /\ pred[0] = 0
        /\ pred[1] > 0
        /\ pred[2] > 0

\* the part of C3 that holds for every draw: no mass on class 0
InBetweenNoClassZero ==
    (pc = "predicted" /\ conf.kind = "classifier" /\ ProbeX = 5) => pred[0] = 0

(***************************************************************************)
(* Properties of repeated fits (SpecDet).                                  *)
(***************************************************************************)
\* C7: two fits of the same data set, in the same initial order and with
\* the same configuration and seed, produce identical node arenas.
C7_SameSeedSameArena ==
    (pc = "fitted" /\ Len(forest) = 2) => forest[1] = forest[2]

\* what the seed does fix: two fits whose roots drew the same theta split
\* the root at the same threshold
SameThetaSameThreshold ==
    (/\ pc = "fitted" /\ Len(forest) = 2 /\ conf.n_splits = 1
     /\ forest[1][1].kind = "split" /\ forest[2][1].kind = "split"
     /\ forest[1][1].split.theta = forest[2][1].split.theta)
        => forest[1][1].split.threshold = forest[2][1].split.threshold

(***************************************************************************)
(* Properties of the categorical counter (SpecCounter).                    *)
(***************************************************************************)
BinSum(w) == w[0] + w[1] + w[2]

\* C11: counters form a commutative monoid under merge: (a+b)+c = a+(b+c),
\* a+b = b+a, a+empty = a = empty+a, total(a+b) = total(a) + total(b); and
\* the leaf counter summed from a subset's class counts is the same for
\* every order of the subset's samples.
C11_CounterMonoid ==
    /\ pc = "merged" =>
        /\ pred.ab_c = pred.a_bc
        /\ pred.ab = pred.ba
        /\ pred.a_e = view.a
        /\ pred.e_a = view.a
        /\ total(pred.ab) = total(view.a) + total(view.b)
        /\ total(pred.ab) = BinSum(view.a) + BinSum(view.b)
        /\ \A k \in Classes : pred.ab[k] = view.a[k] + view.b[k]
    /\ pc = "added" =>
        /\ pred = merge(view.a, add_one(EmptyCounter, probe.y))
        /\ total(pred) = total(view.a) + 1
    /\ pc = "trained" =>
        /\ pred.w = pred.wp
        /\ \A k \in Classes : pred.w[k] = Cardinality({i \in DOMAIN data0 : data0[i].y = k})
        /\ total(pred.w) = Len(data0)

\* three different non-empty counters were merged
C11_Witness ==
    /\ pc = "merged"
    /\ view.a # view.b
    /\ view.b # view.c
    /\ view.a # view.c
    /\ \A k \in Classes : view.a[k] + view.b[k] + view.c[k] > 0
    /\ total(view.a) > 0 /\ total(view.b) > 0 /\ total(view.c) > 0

\* a subset of samples of different classes was summed in two different
\* orders
CounterOrderWitness ==
    /\ pc = "trained"
    /\ data # data0
    /\ data[1].y # data0[1].y

(***************************************************************************)
(* Numbering of the node arena (SpecDet, Spec).  Indices are 0-based as   *)
(* in the source: node j is arena[j + 1].                                  *)
(***************************************************************************)
NodeIds == 0..(Len(arena) - 1)

\* the internal nodes that name j as a child, with the side
ParentsOf(j) ==
    {<<p, side>> \in NodeIds \X {"left", "right"} :
        /\ arena[p + 1].kind = "split"
        /\ IF side = "left" THEN arena[p + 1].left = j ELSE arena[p + 1].right = j}

\* j lies in the subtree rooted at k: following parents of smaller index
\* from j leads to k
RECURSIVE InSubtree(_, _)
InSubtree(j, k) ==
    \/ j = k
    \/ /\ j > k
       /\ \E e \in ParentsOf(j) : e[1] < j /\ InSubtree(e[1], k)

SubtreeOf(k) == {j \in NodeIds : InSubtree(j, k)}

\* C12: in a fitted tree the root is index 0, an internal node's index is
\* below both of its children's, every index of its left subtree is below
\* every index of its right subtree (the left child is the next index, the
\* right child follows the whole left subtree), and every node but the
\* root is the child of exactly one internal node, so that every node is
\* reached from the root.
C12_ArenaPreOrder ==
    TreeDone =>
        /\ ParentsOf(0) = {}
        /\ \A j \in NodeIds \ {0} : Cardinality(ParentsOf(j)) = 1
        /\ \A j \in NodeIds : InSubtree(j, 0)
        /\ \A k \in NodeIds : arena[k + 1].kind = "split" =>
            LET l == arena[k + 1].left
                r == arena[k + 1].right
            IN  /\ l \in NodeIds /\ r \in NodeIds
                /\ k < l /\ k < r
                /\ \A a \in SubtreeOf(l) : \A b \in SubtreeOf(r) : a < b
                /\ l = k + 1
                /\ r = k + 1 + Cardinality(SubtreeOf(l))
                /\ SubtreeOf(k) = {k} \cup SubtreeOf(l) \cup SubtreeOf(r)

\* a finished tree whose root's left child is itself split, so that the
\* right child's index comes after the left subtree's
C12_Witness ==
    /\ TreeDone
    /\ arena[1].kind = "split"
    /\ arena[arena[1].left + 1].kind = "split"
    /\ arena[1].right = 4

(***************************************************************************)
(* The splitter's candidates (SpecSplit, Spec).                            *)
(***************************************************************************)
FeaturesOf(k, theta) == {data[p].x[theta + 1] : p \in arena[k].lo..arena[k].hi}

MinOf(S) == CHOOSE m \in S : \A v \in S : m <= v
MaxOf(S) == CHOOSE m \in S : \A v \in S : v <= m

ConstantColumns(k) ==
    {theta \in 0..(NFeatures - 1) : Cardinality(FeaturesOf(k, theta)) = 1}

\* the splitter was asked for a split of node k's subset
Proposed(k) == arena[k].why # "stop"

\* C13: every trial of the splitter that yields a candidate has
\* lo <= tau < hi, with lo < hi the minimum and maximum of the feature over
\* the subset (tau = lo when hi - lo = 1), so both sides of the candidate
\* hold a sample; a trial yields no candidate exactly when its feature is
\* constant on the subset; the tree builder never makes a leaf because a
\* side of the chosen split was empty, and both children of an internal
\* node get a non-empty subset.
C13_CandidatesSeparate ==
    \A k \in DOMAIN arena :
        /\ \A t \in TrialSet(k) :
            LET F == FeaturesOf(k, t.split.theta)
                lo == MinOf(F)
                hi == MaxOf(F)
                tau == t.split.threshold
            IN  /\ lo < hi
                /\ lo <= tau /\ tau < hi
                /\ hi - lo = 1 => tau = lo
                /\ \E v \in F : v <= tau
                /\ \E v \in F : v > tau
        /\ Proposed(k) =>
            /\ Len(arena[k].trials) <= conf.n_splits
            /\ ConstantColumns(k) = {} => Len(arena[k].trials) = conf.n_splits
            /\ ConstantColumns(k) = 0..(NFeatures - 1) => arena[k].trials = <<>>
        /\ arena[k].why # "empty side"
        /\ (TreeDone /\ arena[k].kind = "split") =>
            LET l == arena[k].left + 1
                r == arena[k].right + 1
            IN  /\ arena[l].lo = arena[k].lo
                /\ arena[l].hi + 1 = arena[r].lo
                /\ arena[r].hi = arena[k].hi
                /\ arena[l].lo <= arena[l].hi
                /\ arena[r].lo <= arena[r].hi

\* of two trials at a node one was skipped on a constant feature, and the
\* other drew a threshold strictly between the feature's bounds
C13_Witness ==
    \E k \in DOMAIN arena :
        /\ conf.n_splits = 2
        /\ Proposed(k)
        /\ Len(arena[k].trials) = 1
        /\ MinOf(FeaturesOf(k, arena[k].trials[1].split.theta))
            < arena[k].trials[1].split.threshold

====
